---- MODULE Spec2Model ----
(***************************************************************************)
(* notebook-on-kube: the request handlers of main.py and the helpers of    *)
(* utils.py as a state machine.  One request is in flight at a time; every *)
(* orchestration command (kubectl, helm) a handler issues is one step and  *)
(* is appended to cmds, the command log of the request.                    *)
(*                                                                         *)
(* Text is a sequence of one-character strings, so that formatting         *)
(* (f"nok-{username}-{notebook_name}", f"^{name}$", "\n".join) and the name *)
(* grammar are computed, not assumed.  None is the empty sequence <<>> and *)
(* a present value v is <<v>>.                                             *)
(***************************************************************************)
EXTENDS Naturals, Sequences, FiniteSets, TLC

VARIABLES
    releases,     \* the cluster: the set of helm releases [name, chart]
    req,          \* the request being served
    pc,           \* where its handler stands
    cmds,         \* the commands this request has issued, in order
    resp,         \* the response: [status, kind, body]
    username,     \* result of username_from_email (None before)
    notebook_name,\* the resolved notebook name the handler works on
    listing,      \* what the last helm list of this request returned
    exists,       \* result of notebook_exists (None before)
    values_file,  \* the temporary values file: "None", "open", "deleted"
    events,       \* get_notebook_events: the list being built
    todo,         \* template_context: the releases still to visit
    notebooks,    \* template_context: the Notebooks built so far
    statefulset_items, \* fetch_notebook_info: "items" of kubectl get statefulset
    pod_items,    \* fetch_notebook_info: "items" of kubectl get pod
    raised,       \* the exception the last fetch_notebook_info raised, or ""
    call,         \* one function applied on its own: [fn, args, result, spawned]
    creates       \* create_notebook calls served at the same time, one per worker thread

vars == <<releases, req, pc, cmds, resp, username, notebook_name, listing,
          exists, values_file, events, todo, notebooks, statefulset_items,
          pod_items, raised, call, creates>>

-----------------------------------------------------------------------------
(* Bounds of the model *)

\* most objects one kubectl get returns for a selector
MaxItems == 2

\* longest string of the strings enumerated in full
MaxLen == 3

\* threads serving create_notebook at the same time
MaxWorkers == 2

-----------------------------------------------------------------------------
(* Text *)

None == <<>>

Letters == {"a", "b", "c", "d", "e", "f", "g", "h", "i", "j", "k", "l", "m",
            "n", "o", "p", "q", "r", "s", "t", "u", "v", "w", "x", "y", "z"}

Digits == {"0", "1", "2", "3", "4", "5", "6", "7", "8", "9"}

\* [a-z0-9]
AlNum == Letters \cup Digits

\* s minus one trailing newline: a Python "$" also matches before it
BeforeDollar(s) ==
    IF Len(s) > 0 /\ s[Len(s)] = "\n" THEN SubSeq(s, 1, Len(s) - 1) ELSE s

\* ^[a-z0-9]([-a-z0-9]*[a-z0-9])?(\.[a-z0-9]([-a-z0-9]*[a-z0-9])?)*$
RegexMatch(string) ==
    LET t == BeforeDollar(string) IN
    /\ Len(t) >= 1
    /\ \A i \in 1..Len(t) : t[i] \in AlNum \cup {"-", "."}
    /\ t[1] \in AlNum
    /\ t[Len(t)] \in AlNum
    /\ \A i \in 1..Len(t) :
          t[i] = "." => /\ i > 1 /\ t[i - 1] \in AlNum
                        /\ i < Len(t) /\ t[i + 1] \in AlNum

\* valid_name: TRUE when the string is returned, FALSE when NOKException is raised
valid_name(string, max_size) ==
    /\ ~(Len(string) > max_size)
    /\ RegexMatch(string)

\* str.split("@", maxsplit=1)[0]
LocalPart(email) ==
    IF \E i \in 1..Len(email) : email[i] = "@"
    THEN LET first == CHOOSE i \in 1..Len(email) :
                          /\ email[i] = "@"
                          /\ \A j \in 1..(i - 1) : email[j] # "@"
         IN SubSeq(email, 1, first - 1)
    ELSE email

\* the credentials a request may carry; "" is the absent or empty cookie
Tokens == {"", "tokU", "tokBad"}

\* jwt.decode(kube_token, options={"verify_signature": False}): whether the
\* token decodes (InvalidTokenError otherwise) and the claims it carries.  A
\* claim is [type, text]: a JSON string and its text, or a value of another type
jwt_decode(kube_token) ==
    CASE kube_token = "tokU" ->
             [decodes |-> TRUE,
              payload |-> [email |-> [type |-> "string", text |-> <<"u", "@", "x">>]]]
      [] OTHER -> [decodes |-> FALSE, payload |-> [sub |-> ""]]

\* what a function call gives: the value returned, or the exception raised
\* (for an HTTPException, its status code and detail)
Returned(value) == [raises |-> "", status |-> 0, detail |-> <<>>, value |-> value]

Raised(exception, status, detail) ==
    [raises |-> exception, status |-> status, detail |-> detail, value |-> <<>>]

\* the body of username_from_email, given what jwt.decode gives for the token:
\* InvalidTokenError, KeyError and NOKException are caught and answered 400;
\* .split on a claim that is no string raises AttributeError, which is not caught
username_from_content(content) ==
    LET detail == <<"Could not get a valid username from the Kubernetes token: ">>
    IN IF ~content.decodes
       THEN Raised("HTTPException", 400, detail \o <<"InvalidTokenError">>)
       ELSE IF "email" \notin DOMAIN content.payload
       THEN Raised("HTTPException", 400, detail \o <<"'email'">>)
       ELSE IF content.payload.email.type # "string"
       THEN Raised("AttributeError", 500, <<"object has no attribute 'split'">>)
       ELSE LET local_part == LocalPart(content.payload.email.text) IN
            IF valid_name(local_part, 20)
            THEN Returned(local_part)
            ELSE Raised("HTTPException", 400, detail \o <<"NOKException">>)

\* username_from_email: <<username>>, or None when HTTPException(400) is raised
username_from_email(kube_token) ==
    LET r == username_from_content(jwt_decode(kube_token)) IN
    IF r.raises = "" THEN <<r.value>> ELSE None

\* f"nok-{username}-{notebook_name}"
complete_name(user, name) == <<"n", "o", "k", "-">> \o user \o <<"-">> \o name

\* complete_notebook_name_from_form: <<complete_name>>, or None (HTTPException 400)
complete_notebook_name_from_form(name, user) ==
    IF valid_name(complete_name(user, name), 40)
    THEN <<complete_name(user, name)>>
    ELSE None

\* get_notebook_pod_name: f"{notebook_name}-0"
get_notebook_pod_name(name) == name \o <<"-", "0">>

-----------------------------------------------------------------------------
(* Orchestration commands: utils.kubectl and utils.helm *)

T(word) == <<word>>

\* NOK_KUBE_APISERVER and NOK_KUBE_TLS_SERVER_NAME are unset, NOK_NAMESPACE too
KUBE_API_SERVER == None

KUBE_TLS_SERVER_NAME == None

NOTEBOOKS_NAMESPACE == T("default")

IN_CLUSTER_CRT == T("/var/run/secrets/kubernetes.io/serviceaccount/ca.crt")

JUPYTER_NOTEBOOK_CHART_PATH == T("chart/jupyter-notebook")

\* utils.kubectl: the command handed to run_command; kube_apiserver and
\* tls_server_name are None or <<value>>
kubectl_command(body, kube_token, kube_apiserver, tls_server_name, namespace) ==
    LET b1 == IF kube_apiserver # None
              THEN body \o <<T("--server"), kube_apiserver[1],
                             T("--certificate-authority"), IN_CLUSTER_CRT>>
              ELSE body
        b2 == IF tls_server_name # None
              THEN b1 \o <<T("--tls-server-name"), tls_server_name[1]>>
              ELSE b1
    IN <<T("kubectl")>> \o b2
         \o <<T("--namespace"), namespace, T("--token"), T(kube_token)>>

\* helm_command with the credential flag written before the caller's arguments
helm_command_token_first(body, kube_token, kube_apiserver, tls_server_name, namespace) ==
    <<T("helm"), T("--kube-token"), T(kube_token)>> \o body
    \o (IF kube_apiserver # None
        THEN <<T("--kube-apiserver"), kube_apiserver[1],
               T("--kube-ca-file"), IN_CLUSTER_CRT>>
        ELSE <<>>)
    \o (IF tls_server_name # None
        THEN <<T("--kube-tls-server-name"), tls_server_name[1]>>
        ELSE <<>>)
    \o <<T("--namespace"), namespace>>

\* utils.helm: the command handed to run_command
helm_command(body, kube_token, kube_apiserver, tls_server_name, namespace) ==
    LET b1 == IF kube_apiserver # None
              THEN body \o <<T("--kube-apiserver"), kube_apiserver[1],
                             T("--kube-ca-file"), IN_CLUSTER_CRT>>
              ELSE body
        b2 == IF tls_server_name # None
              THEN b1 \o <<T("--kube-tls-server-name"), tls_server_name[1]>>
              ELSE b1
    IN <<T("helm")>> \o b2
         \o <<T("--namespace"), namespace, T("--kube-token"), T(kube_token)>>

\* kubectl(body=..., kube_token=...): the other parameters keep their defaults
kubectl(body, kube_token) ==
    kubectl_command(body, kube_token, KUBE_API_SERVER, KUBE_TLS_SERVER_NAME,
                    NOTEBOOKS_NAMESPACE)

\* helm(body=..., kube_token=...): the other parameters keep their defaults
helm(body, kube_token) ==
    helm_command(body, kube_token, KUBE_API_SERVER, KUBE_TLS_SERVER_NAME,
                 NOTEBOOKS_NAMESPACE)

\* validate_kube_token: ["auth", "can-i", "list", "secret"]
ProbeBody == <<T("auth"), T("can-i"), T("list"), T("secret")>>

\* notebook_exists: ["list", "--filter", f"^{notebook_name}$", "--all", "--output", "json"]
ExactFilter(name) == <<"^">> \o name \o <<"$">>

ExistsBody(name) ==
    <<T("list"), T("--filter"), ExactFilter(name), T("--all"), T("--output"), T("json")>>

\* list_releases: ["list", "--filter", f"^nok-{username}-.+$", "--all", "--output", "json"]
UserFilter(user) == <<"^", "n", "o", "k", "-">> \o user \o <<"-", ".", "+", "$">>

ListBody(user) ==
    <<T("list"), T("--filter"), UserFilter(user), T("--all"), T("--output"), T("json")>>

\* f"app.kubernetes.io/instance={release_name}"
Selector(name) == <<"app.kubernetes.io/instance=">> \o name

\* get_notebook_statefulset / get_notebook_pod
GetBody(kind, name) ==
    <<T("get"), T(kind), T("--selector"), Selector(name), T("--output"), T("json")>>

\* scale_notebook_statefulset; replicas is str(int(scale))
ScaleBody(name, replicas) ==
    <<T("scale"), T("statefulset"), T("--selector"), Selector(name),
      T("--replicas"), T(replicas)>>

\* get_notebook_events: ["get", "event", "--field-selector", f"involvedObject.name={obj}"]
EventBody(obj) ==
    <<T("get"), T("event"), T("--field-selector"), <<"involvedObject.name=">> \o obj>>

\* delete_notebook: ["delete", notebook_name]
DeleteBody(name) == <<T("delete"), name>>

\* deploy_notebook: ["install", notebook_name, chart path] (+ ["--values", values_file.name])
TmpFileName == T("/tmp/tmpvalues")

InstallBody(name, file) ==
    IF file # "None"
    THEN <<T("install"), name, JUPYTER_NOTEBOOK_CHART_PATH, T("--values"), TmpFileName>>
    ELSE <<T("install"), name, JUPYTER_NOTEBOOK_CHART_PATH>>

-----------------------------------------------------------------------------
(* The cluster as helm sees it *)

RECURSIVE RegexFull(_, _)
\* whether pattern p (literals, ".", "x+"), anchored at both ends, matches s
RegexFull(p, s) ==
    IF p = <<>> THEN s = <<>>
    ELSE IF Len(p) >= 2 /\ p[2] = "+"
    THEN \E k \in 1..Len(s) :
            /\ \A i \in 1..k : p[1] = "." \/ p[1] = s[i]
            /\ RegexFull(SubSeq(p, 3, Len(p)), SubSeq(s, k + 1, Len(s)))
    ELSE /\ Len(s) >= 1
         /\ (p[1] = "." \/ p[1] = s[1])
         /\ RegexFull(Tail(p), Tail(s))

\* helm list --filter <regex>: the filter of the code always reads ^...$
FilterMatches(filter, name) ==
    RegexFull(SubSeq(filter, 2, Len(filter) - 1), name)

\* some enumeration of a finite set: the order in which helm prints the releases
SeqOf(S) ==
    CHOOSE s \in [1..Cardinality(S) -> S] : {s[i] : i \in 1..Cardinality(S)} = S

\* helm list --filter f --all --output json, parsed by json.loads
HelmList(filter) == SeqOf({r \in releases : FilterMatches(filter, r.name)})

JupyterChart == <<"jupyter-notebook", "-", "0.1.0">>

OtherChart == <<"nginx", "-", "1.0">>

\* is_notebook_release returning True in its else branch too
is_notebook_release_always(chart) == Len(chart) >= 0

\* is_notebook_release: chart.startswith("jupyter-notebook-")
is_notebook_release(chart) ==
    /\ Len(chart) >= 2
    /\ SubSeq(chart, 1, 2) = <<"jupyter-notebook", "-">>

-----------------------------------------------------------------------------
(* What a request carries, and what the cluster may answer *)

\* notebook_name fields of the new-notebook form ("-" makes an invalid name)
FormNames == {<<"x", "z", "y">>, <<"x", ".", "y">>, <<"-">>}

\* {notebook_name} path parameters of delete, scale and events
PathNames == {<<"n", "o", "k", "-", "u", "-", "x", "z", "y">>,
              <<"n", "o", "k", "-", "u", "-", "x", ".", "y">>,
              <<"n", "o", "k", "-", "v", "-", "x", "z", "y">>}

\* helm_values fields of the form: a mapping, the empty text, a malformed text
YamlTexts == {"image:\n  repository: foo\n", "", "a: ["}

\* whether yaml.load(text) raises YAMLError
YamlLoadRaises(text) == text = "a: ["

\* the scale query parameter; Literal["0", "1"] admits the first two
Scales == {"0", "1", "2"}

Requests ==
    [op : {"list"}, kube_token : Tokens, name : {None}, scale : {""},
     helm_values : {None}]
    \cup
    [op : {"create"}, kube_token : Tokens, name : FormNames, scale : {""},
     helm_values : {None} \cup {<<t>> : t \in YamlTexts}]
    \cup
    [op : {"delete", "events"}, kube_token : Tokens, name : PathNames,
     scale : {""}, helm_values : {None}]
    \cup
    [op : {"scale"}, kube_token : Tokens, name : PathNames, scale : Scales,
     helm_values : {None}]

\* releases other parties may have installed before the service starts
EnvReleases ==
    {[name |-> <<"n", "o", "k", "-", "u", "-", "q">>, chart |-> OtherChart],
     [name |-> <<"n", "o", "k", "-", "v", "-", "x", "z", "y">>, chart |-> JupyterChart]}

BoundedSeqs(S, n) == UNION {[1..k -> S] : k \in 0..n}

\* items of kubectl get statefulset: spec.template.spec.containers[0].image,
\* or an object without that path
StatefulsetItems == {[image |-> "img1"], [image |-> "img3"], [kind |-> "StatefulSet"]}

\* items of kubectl get pod: spec.containers[0].image, status.phase and, once
\* started, status.startTime; or an object without those paths
PodItems == {[image |-> "img2", phase |-> "Running", startTime |-> "t1"],
             [image |-> "img2", phase |-> "Pending"],
             [kind |-> "Pod"]}

\* texts kubectl get event prints
EventOutputs == {<<>>, <<"e">>}

\* FirstItem taking ["items"][-1]
LastItem(items) == IF Len(items) = 0 THEN None ELSE <<items[Len(items)]>>

\* json.loads(...)["items"][0], IndexError giving None
FirstItem(items) == IF Len(items) = 0 THEN None ELSE <<items[1]>>

\* get_notebook_statefulset: the view fetch_notebook_info works on
statefulset == FirstItem(statefulset_items)

\* get_notebook_pod: the view fetch_notebook_info works on
pod == FirstItem(pod_items)

-----------------------------------------------------------------------------
(* NotebookStatus *)

missing_statefulset == "StatefulSet Missing"

not_running == "Not Running"

error == "Error"

\* whether reading the fields of the two views raises KeyError
ReadRaises(ss, p) ==
    \/ ss # None /\ "image" \notin DOMAIN ss[1]
    \/ p # None /\ ~({"image", "phase"} \subseteq DOMAIN p[1])

\* fetch_notebook_info with the else branch writing not_running
fetch_notebook_info_no_missing(ss, p) ==
    LET info1 == [image |-> IF ss # None THEN ss[1].image ELSE not_running,
                  status |-> not_running,
                  start_time |-> not_running]
        info2 == IF p # None
                 THEN [info1 EXCEPT !.image = p[1].image, !.status = p[1].phase]
                 ELSE info1
    IN IF p # None /\ "startTime" \in DOMAIN p[1]
       THEN [info2 EXCEPT !.start_time = p[1].startTime]
       ELSE info2

\* fetch_notebook_info with the pod block resetting start_time to not_running
fetch_notebook_info_pod_resets(ss, p) ==
    LET info1 == IF ss # None
                 THEN [image |-> ss[1].image,
                       status |-> not_running,
                       start_time |-> not_running]
                 ELSE [image |-> missing_statefulset,
                       status |-> missing_statefulset,
                       start_time |-> missing_statefulset]
        info2 == IF p # None
                 THEN [info1 EXCEPT !.image = p[1].image, !.status = p[1].phase,
                                    !.start_time = not_running]
                 ELSE info1
    IN IF p # None /\ "startTime" \in DOMAIN p[1]
       THEN [info2 EXCEPT !.start_time = p[1].startTime]
       ELSE info2

\* NotebookStatus.fetch_notebook_info, given the two query results
fetch_notebook_info(ss, p) ==
    LET info1 == IF ss # None
                 THEN [image |-> ss[1].image,
                       status |-> not_running,
                       start_time |-> not_running]
                 ELSE [image |-> missing_statefulset,
                       status |-> missing_statefulset,
                       start_time |-> missing_statefulset]
        info2 == IF p # None
                 THEN [info1 EXCEPT !.image = p[1].image, !.status = p[1].phase]
                 ELSE info1
    IN IF p # None /\ "startTime" \in DOMAIN p[1]
       THEN [info2 EXCEPT !.start_time = p[1].startTime]
       ELSE info2

\* Notebook(**notebook_info) with the info of fetch_notebook_info
Notebook(name, info) ==
    [name |-> name, image |-> info.image, status |-> info.status,
     start_time |-> info.start_time]

\* Notebook(name=release_name): the fields keep their defaults
NotebookDefault(name) ==
    [name |-> name, image |-> error, status |-> error, start_time |-> error]

-----------------------------------------------------------------------------
(* get_notebook_events *)

\* EventObjects with the pod before the notebook
EventObjectsPodFirst(name) ==
    <<get_notebook_pod_name(name), name,
      <<"d", "a", "t", "a", "-">> \o get_notebook_pod_name(name)>>

\* (notebook_name, pod_name, f"data-{pod_name}")
EventObjects(name) ==
    <<name, get_notebook_pod_name(name),
      <<"d", "a", "t", "a", "-">> \o get_notebook_pod_name(name)>>

\* f"* Events involving {obj}:\n"
EventHeader(obj) == <<"* Events involving ">> \o obj \o <<":", "\n">>

RECURSIVE Join(_)
\* "\n".join(parts)
Join(parts) ==
    IF parts = <<>> THEN <<>>
    ELSE IF Len(parts) = 1 THEN parts[1]
    ELSE parts[1] \o <<"\n">> \o Join(Tail(parts))

-----------------------------------------------------------------------------
(* The requests *)

NoResponse == [status |-> 0, kind |-> "", body |-> <<>>]

\* no function is being applied on its own
NoCall == [fn |-> "", args |-> <<>>, result |-> <<>>, spawned |-> <<>>]

Response(status, kind) == [status |-> status, kind |-> kind, body |-> <<>>]

\* the handler returns, raises HTTPException(status, ...), or lets an
\* exception escape (500)
Finish(status, kind) ==
    /\ pc' = "done"
    /\ resp' = Response(status, kind)

Init ==
    /\ releases \in SUBSET EnvReleases
    /\ req = [op |-> "list", kube_token |-> "", name |-> None, scale |-> "",
              helm_values |-> None]
    /\ pc = "idle"
    /\ cmds = <<>>
    /\ resp = NoResponse
    /\ username = None
    /\ notebook_name = None
    /\ listing = <<>>
    /\ exists = None
    /\ values_file = "None"
    /\ events = <<>>
    /\ todo = <<>>
    /\ notebooks = <<>>
    /\ statefulset_items = <<>>
    /\ pod_items = <<>>
    /\ raised = ""
    /\ call = NoCall
    /\ creates = <<>>

\* a request arrives; the state of the previous one is dropped
Receive ==
    /\ pc = "idle"
    /\ req' \in Requests
    /\ pc' = "valid_kube_token"
    /\ cmds' = <<>>
    /\ resp' = NoResponse
    /\ username' = None
    /\ notebook_name' = None
    /\ listing' = <<>>
    /\ exists' = None
    /\ values_file' = "None"
    /\ events' = <<>>
    /\ todo' = <<>>
    /\ notebooks' = <<>>
    /\ statefulset_items' = <<>>
    /\ pod_items' = <<>>
    /\ raised' = ""
    /\ UNCHANGED releases
    /\ UNCHANGED <<call, creates>>

\* the dependency solved after valid_kube_token, by route
AfterToken(op) ==
    IF op \in {"list", "create"} THEN "username_from_email"
    ELSE "existing_notebook_name"

\* ValidKubeToken testing only that the cookie is there: validate_kube_token
\* is not called
ValidKubeTokenPresenceOnly ==
    /\ pc = "valid_kube_token"
    /\ \/ /\ req.kube_token = ""
          /\ Finish(403, "Forbidden")
       \/ /\ req.kube_token # ""
          /\ pc' = AfterToken(req.op)
          /\ UNCHANGED resp
    /\ UNCHANGED <<releases, req, cmds, username, notebook_name, listing, exists,
                   values_file, events, todo, notebooks, statefulset_items, pod_items, raised>>
    /\ UNCHANGED <<call, creates>>

\* valid_kube_token and validate_kube_token: every route depends on it, once
ValidKubeToken ==
    /\ pc = "valid_kube_token"
    /\ \/ /\ req.kube_token = ""
          /\ Finish(403, "Forbidden")
          /\ UNCHANGED cmds
       \/ /\ req.kube_token # ""
          /\ cmds' = Append(cmds, kubectl(ProbeBody, req.kube_token))
          /\ \/ /\ pc' = AfterToken(req.op)
                /\ UNCHANGED resp
             \/ Finish(401, "Unauthorized")
    /\ UNCHANGED <<releases, req, username, notebook_name, listing, exists,
                   values_file, events, todo, notebooks, statefulset_items, pod_items, raised>>
    /\ UNCHANGED <<call, creates>>

\* username_from_email, a dependency of list_notebooks and (through
\* complete_notebook_name_from_form) of create_notebook
UsernameFromEmail ==
    /\ pc = "username_from_email"
    /\ LET u == username_from_email(req.kube_token) IN
       \/ /\ u = None
          /\ Finish(400, "BadIdentity")
          /\ UNCHANGED username
       \/ /\ u # None
          /\ username' = u
          /\ pc' = IF req.op = "list" THEN "list_releases"
                   ELSE "complete_notebook_name_from_form"
          /\ UNCHANGED resp
    /\ UNCHANGED <<releases, req, cmds, notebook_name, listing, exists,
                   values_file, events, todo, notebooks, statefulset_items, pod_items, raised>>
    /\ UNCHANGED <<call, creates>>

\* complete_notebook_name_from_form, a dependency of create_notebook
CompleteNotebookName ==
    /\ pc = "complete_notebook_name_from_form"
    /\ LET n == complete_notebook_name_from_form(req.name, username[1]) IN
       \/ /\ n = None
          /\ Finish(400, "InvalidName")
          /\ UNCHANGED notebook_name
       \/ /\ n # None
          /\ notebook_name' = n
          /\ pc' = "notebook_exists"
          /\ UNCHANGED resp
    /\ UNCHANGED <<releases, req, cmds, username, listing, exists,
                   values_file, events, todo, notebooks, statefulset_items, pod_items, raised>>
    /\ UNCHANGED <<call, creates>>

\* notebook_exists with ">= 1" for "== 1"
notebook_exists_at_least_one(entries) == Len(entries) >= 1

\* notebook_exists: len(json.loads(helm list)) == 1
notebook_exists(entries) == Len(entries) = 1

\* CreateExists with the result of notebook_exists ignored
CreateExistsIgnored ==
    /\ pc = "notebook_exists"
    /\ cmds' = Append(cmds, helm(ExistsBody(notebook_name[1]), req.kube_token))
    /\ listing' = HelmList(ExactFilter(notebook_name[1]))
    /\ exists' = <<Len(listing') = 1>>
    /\ pc' = "form_data_to_values_file"
    /\ UNCHANGED <<releases, req, resp, username, notebook_name, values_file,
                   events, todo, notebooks, statefulset_items, pod_items, raised>>
    /\ UNCHANGED <<call, creates>>

\* create_notebook, first statement: notebook_exists and the 400 when it is true
CreateExists ==
    /\ pc = "notebook_exists"
    /\ cmds' = Append(cmds, helm(ExistsBody(notebook_name[1]), req.kube_token))
    /\ \/ /\ Finish(500, "InternalError")
          /\ UNCHANGED <<listing, exists>>
       \/ /\ listing' = HelmList(ExactFilter(notebook_name[1]))
          /\ exists' = <<notebook_exists(listing')>>
          /\ \/ /\ notebook_exists(listing')
                /\ Finish(400, "Conflict")
             \/ /\ ~notebook_exists(listing')
                /\ pc' = "form_data_to_values_file"
                /\ UNCHANGED resp
    /\ UNCHANGED <<releases, req, username, notebook_name, values_file, events,
                   todo, notebooks, statefulset_items, pod_items, raised>>
    /\ UNCHANGED <<call, creates>>

\* NotebookConfig.form_data_to_values_file, evaluated as an argument of the
\* deploy_notebook call
FormDataToValuesFile ==
    /\ pc = "form_data_to_values_file"
    /\ \/ /\ req.helm_values = None
          /\ pc' = "deploy_notebook"
          /\ UNCHANGED <<values_file, resp>>
       \/ /\ req.helm_values # None
          /\ values_file' = "open"
          /\ \/ /\ YamlLoadRaises(req.helm_values[1])
                /\ Finish(400, "BadRequest")
             \/ /\ ~YamlLoadRaises(req.helm_values[1])
                /\ pc' = "deploy_notebook"
                /\ UNCHANGED resp
    /\ UNCHANGED <<releases, req, cmds, username, notebook_name, listing, exists,
                   events, todo, notebooks, statefulset_items, pod_items, raised>>
    /\ UNCHANGED <<call, creates>>

\* values_file.close() of a NamedTemporaryFile deletes it
Close(file) == IF file = "open" THEN "deleted" ELSE file

\* deploy_notebook: helm install, values_file closed in the finally clause
DeployNotebook ==
    /\ pc = "deploy_notebook"
    /\ cmds' = Append(cmds, helm(InstallBody(notebook_name[1], values_file),
                                 req.kube_token))
    /\ values_file' = Close(values_file)
    /\ \/ /\ \A r \in releases : r.name # notebook_name[1]
          /\ releases' = releases \cup
                           {[name |-> notebook_name[1], chart |-> JupyterChart]}
          /\ Finish(303, "Redirect")
       \/ /\ Finish(500, "InternalError")
          /\ UNCHANGED releases
    /\ UNCHANGED <<req, username, notebook_name, listing, exists, events, todo,
                   notebooks, statefulset_items, pod_items, raised>>
    /\ UNCHANGED <<call, creates>>

\* ExistingNotebookName with the test inverted to "if notebook_exists: raise"
ExistingNotebookNameInverted ==
    /\ pc = "existing_notebook_name"
    /\ cmds' = Append(cmds, helm(ExistsBody(req.name), req.kube_token))
    /\ listing' = HelmList(ExactFilter(req.name))
    /\ exists' = <<Len(listing') = 1>>
    /\ \/ /\ Len(listing') = 1
          /\ Finish(400, "NotFound")
          /\ UNCHANGED notebook_name
       \/ /\ Len(listing') # 1
          /\ notebook_name' = <<req.name>>
          /\ pc' = CASE req.op = "delete" -> "delete_notebook"
                     [] req.op = "scale" -> "scale_parameter"
                     [] OTHER -> "get_notebook_events"
          /\ UNCHANGED resp
    /\ UNCHANGED <<releases, req, username, values_file, events, todo,
                   notebooks, statefulset_items, pod_items, raised>>
    /\ UNCHANGED <<call, creates>>

\* existing_notebook_name, a dependency of delete, scale and events
ExistingNotebookName ==
    /\ pc = "existing_notebook_name"
    /\ cmds' = Append(cmds, helm(ExistsBody(req.name), req.kube_token))
    /\ \/ /\ Finish(500, "InternalError")
          /\ UNCHANGED <<listing, exists, notebook_name>>
       \/ /\ listing' = HelmList(ExactFilter(req.name))
          /\ exists' = <<notebook_exists(listing')>>
          /\ \/ /\ ~notebook_exists(listing')
                /\ Finish(400, "NotFound")
                /\ UNCHANGED notebook_name
             \/ /\ notebook_exists(listing')
                /\ notebook_name' = <<req.name>>
                /\ pc' = CASE req.op = "delete" -> "delete_notebook"
                           [] req.op = "scale" -> "scale_parameter"
                           [] OTHER -> "get_notebook_events"
                /\ UNCHANGED resp
    /\ UNCHANGED <<releases, req, username, values_file, events, todo,
                   notebooks, statefulset_items, pod_items, raised>>
    /\ UNCHANGED <<call, creates>>

\* ScaleParameter without the Literal["0", "1"] annotation: any value passes
ScaleParameterUnchecked ==
    /\ pc = "scale_parameter"
    /\ pc' = "scale_notebook"
    /\ UNCHANGED <<releases, req, cmds, resp, username, notebook_name, listing,
                   exists, values_file, events, todo, notebooks, statefulset_items,
                   pod_items, raised>>
    /\ UNCHANGED <<call, creates>>

\* scale: Literal["0", "1"]: the route's own query parameter is validated
\* once its dependencies are solved; a bad value is answered 422
ScaleParameter ==
    /\ pc = "scale_parameter"
    /\ \/ /\ req.scale \notin {"0", "1"}
          /\ Finish(422, "ValidationError")
       \/ /\ req.scale \in {"0", "1"}
          /\ pc' = "scale_notebook"
          /\ UNCHANGED resp
    /\ UNCHANGED <<releases, req, cmds, username, notebook_name, listing, exists,
                   values_file, events, todo, notebooks, statefulset_items, pod_items, raised>>
    /\ UNCHANGED <<call, creates>>

\* scale_notebook and scale_notebook_statefulset
ScaleNotebook ==
    /\ pc = "scale_notebook"
    /\ cmds' = Append(cmds, kubectl(ScaleBody(notebook_name[1], req.scale),
                                    req.kube_token))
    /\ \/ Finish(303, "Redirect")
       \/ Finish(500, "InternalError")
    /\ UNCHANGED <<releases, req, username, notebook_name, listing, exists,
                   values_file, events, todo, notebooks, statefulset_items, pod_items, raised>>
    /\ UNCHANGED <<call, creates>>

\* delete_notebook: helm delete
DeleteNotebook ==
    /\ pc = "delete_notebook"
    /\ cmds' = Append(cmds, helm(DeleteBody(notebook_name[1]), req.kube_token))
    /\ \/ /\ \E r \in releases : r.name = notebook_name[1]
          /\ releases' = {r \in releases : r.name # notebook_name[1]}
          /\ Finish(303, "Redirect")
       \/ /\ Finish(500, "InternalError")
          /\ UNCHANGED releases
    /\ UNCHANGED <<req, username, notebook_name, listing, exists, values_file,
                   events, todo, notebooks, statefulset_items, pod_items, raised>>
    /\ UNCHANGED <<call, creates>>

\* notebook_events and get_notebook_events: one turn of the loop over objects
NotebookEvents ==
    /\ pc = "get_notebook_events"
    /\ LET obj == EventObjects(notebook_name[1])[Len(events) \div 2 + 1]
           withHeader == Append(events, EventHeader(obj))
       IN /\ cmds' = Append(cmds, kubectl(EventBody(obj), req.kube_token))
          /\ \/ /\ events' = withHeader
                /\ Finish(500, "InternalError")
             \/ \E out \in EventOutputs :
                   /\ events' = Append(withHeader, out)
                   /\ IF Len(events') = 2 * Len(EventObjects(notebook_name[1]))
                      THEN /\ pc' = "done"
                           /\ resp' = [status |-> 200, kind |-> "OK",
                                       body |-> Join(events')]
                      ELSE UNCHANGED <<pc, resp>>
    /\ UNCHANGED <<releases, req, username, notebook_name, listing, exists,
                   values_file, todo, notebooks, statefulset_items, pod_items, raised>>
    /\ UNCHANGED <<call, creates>>

\* list_notebooks / template_context: list_releases
ListReleases ==
    /\ pc = "list_releases"
    /\ cmds' = Append(cmds, helm(ListBody(username[1]), req.kube_token))
    /\ \/ /\ Finish(500, "InternalError")
          /\ UNCHANGED <<listing, todo>>
       \/ /\ listing' = HelmList(UserFilter(username[1]))
          /\ todo' = listing'
          /\ pc' = "template_context"
          /\ UNCHANGED resp
    /\ UNCHANGED <<releases, req, username, notebook_name, exists, values_file,
                   events, notebooks, statefulset_items, pod_items, raised>>
    /\ UNCHANGED <<call, creates>>

\* template_context: the loop is over, the context is returned
ListReturn ==
    /\ pc = "template_context"
    /\ todo = <<>>
    /\ Finish(200, "OK")
    /\ UNCHANGED <<releases, req, cmds, username, notebook_name, listing, exists,
                   values_file, events, todo, notebooks, statefulset_items, pod_items, raised>>
    /\ UNCHANGED <<call, creates>>

\* template_context: a release of another chart is passed over (continue)
SkipRelease ==
    /\ pc = "template_context"
    /\ todo # <<>>
    /\ ~is_notebook_release(Head(todo).chart)
    /\ todo' = Tail(todo)
    /\ UNCHANGED <<releases, req, pc, cmds, resp, username, notebook_name, listing,
                   exists, values_file, events, notebooks, statefulset_items, pod_items, raised>>
    /\ UNCHANGED <<call, creates>>

\* fetch_notebook_info, first statement: get_notebook_statefulset; a
\* NOKException is caught by template_context, which appends the default Notebook
GetNotebookStatefulset ==
    /\ pc = "template_context"
    /\ todo # <<>>
    /\ is_notebook_release(Head(todo).chart)
    /\ cmds' = Append(cmds, kubectl(GetBody("statefulset", Head(todo).name),
                                    req.kube_token))
    /\ pod_items' = <<>>
    /\ \/ /\ raised' = "NOKException"
          /\ statefulset_items' = <<>>
          /\ notebooks' = Append(notebooks, NotebookDefault(Head(todo).name))
          /\ todo' = Tail(todo)
          /\ UNCHANGED pc
       \/ \E items \in BoundedSeqs(StatefulsetItems, MaxItems) :
             /\ raised' = ""
             /\ statefulset_items' = items
             /\ pc' = "get_notebook_pod"
             /\ UNCHANGED <<notebooks, todo>>
    /\ UNCHANGED <<releases, req, resp, username, notebook_name, listing, exists,
                   values_file, events>>
    /\ UNCHANGED <<call, creates>>

\* GetNotebookPod with the NOKException of the pod query not caught by
\* template_context: the whole listing fails
GetNotebookPodUncaught ==
    /\ pc = "get_notebook_pod"
    /\ cmds' = Append(cmds, kubectl(GetBody("pod", Head(todo).name), req.kube_token))
    /\ \/ /\ raised' = "NOKException"
          /\ pod_items' = <<>>
          /\ Finish(500, "InternalError")
          /\ UNCHANGED <<notebooks, todo>>
       \/ \E items \in BoundedSeqs(PodItems, MaxItems) :
             /\ pod_items' = items
             /\ ~ReadRaises(statefulset, pod')
             /\ raised' = ""
             /\ notebooks' = Append(notebooks,
                   Notebook(Head(todo).name, fetch_notebook_info(statefulset, pod')))
             /\ todo' = Tail(todo)
             /\ pc' = "template_context"
             /\ UNCHANGED resp
    /\ UNCHANGED <<releases, req, username, notebook_name, listing, exists,
                   values_file, events, statefulset_items>>
    /\ UNCHANGED <<call, creates>>

\* fetch_notebook_info from get_notebook_pod on, and the rest of the loop body
GetNotebookPod ==
    /\ pc = "get_notebook_pod"
    /\ cmds' = Append(cmds, kubectl(GetBody("pod", Head(todo).name), req.kube_token))
    /\ \/ /\ raised' = "NOKException"
          /\ pod_items' = <<>>
          /\ notebooks' = Append(notebooks, NotebookDefault(Head(todo).name))
          /\ todo' = Tail(todo)
          /\ pc' = "template_context"
          /\ UNCHANGED resp
       \/ \E items \in BoundedSeqs(PodItems, MaxItems) :
             /\ pod_items' = items
             /\ \/ /\ ReadRaises(statefulset, pod')
                   /\ raised' = "KeyError"
                   /\ Finish(500, "Unhandled")
                   /\ UNCHANGED <<notebooks, todo>>
                \/ /\ ~ReadRaises(statefulset, pod')
                   /\ raised' = ""
                   /\ notebooks' = Append(notebooks,
                         Notebook(Head(todo).name,
                                  fetch_notebook_info(statefulset, pod')))
                   /\ todo' = Tail(todo)
                   /\ pc' = "template_context"
                   /\ UNCHANGED resp
    /\ UNCHANGED <<releases, req, username, notebook_name, listing, exists,
                   values_file, events, statefulset_items>>
    /\ UNCHANGED <<call, creates>>

\* the collector finalizes a NamedTemporaryFile nobody closed, at some point
\* after the handler that held it has raised
Finalize ==
    /\ pc = "done"
    /\ values_file = "open"
    /\ values_file' = "deleted"
    /\ UNCHANGED <<releases, req, pc, cmds, resp, username, notebook_name, listing,
                   exists, events, todo, notebooks, statefulset_items, pod_items, raised>>
    /\ UNCHANGED <<call, creates>>

\* the response has been sent and the request's objects are gone; the model
\* takes up the next request only then
Reply ==
    /\ pc = "done"
    /\ values_file # "open"
    /\ pc' = "idle"
    /\ UNCHANGED <<releases, req, cmds, resp, username, notebook_name, listing,
                   exists, values_file, events, todo, notebooks, statefulset_items,
                   pod_items, raised>>
    /\ UNCHANGED <<call, creates>>

Next ==
    \/ Receive
    \/ ValidKubeToken
    \/ UsernameFromEmail
    \/ CompleteNotebookName
    \/ CreateExists
    \/ FormDataToValuesFile
    \/ DeployNotebook
    \/ ExistingNotebookName
    \/ ScaleParameter
    \/ ScaleNotebook
    \/ DeleteNotebook
    \/ NotebookEvents
    \/ ListReleases
    \/ ListReturn
    \/ SkipRelease
    \/ GetNotebookStatefulset
    \/ GetNotebookPod
    \/ Finalize
    \/ Reply

Spec == Init /\ [][Next]_vars

-----------------------------------------------------------------------------
(* The helpers applied on their own: run_command, kubectl, helm,               *)
(* valid_name, valid_kube_token, username_from_email and                      *)
(* complete_notebook_name_from_form, each called once with arguments drawn    *)
(* from bounded sets and, for a command, with an outcome of the process       *)

\* the variables of a request
requestVars == <<releases, req, pc, cmds, resp, username, notebook_name, listing,
                 exists, values_file, events, todo, notebooks, statefulset_items,
                 pod_items, raised>>

\* no request is being served
NoRequest ==
    /\ req = [op |-> "list", kube_token |-> "", name |-> None, scale |-> "",
              helm_values |-> None]
    /\ pc = "idle"
    /\ cmds = <<>>
    /\ resp = NoResponse
    /\ username = None
    /\ notebook_name = None
    /\ listing = <<>>
    /\ exists = None
    /\ values_file = "None"
    /\ events = <<>>
    /\ todo = <<>>
    /\ notebooks = <<>>
    /\ statefulset_items = <<>>
    /\ pod_items = <<>>
    /\ raised = ""

\* c repeated n times
Rep(c, n) == [i \in 1..n |-> c]

\* what subprocess.check_output(command, timeout=600, text=True, stderr=PIPE)
\* can do: return stdout (exit status 0), or raise CalledProcessError (stderr
\* is the text captured), TimeoutExpired (stderr is None when nothing was
\* captured before the timeout, else the bytes captured) or FileNotFoundError
Outcomes ==
    [kind : {"exit0", "CalledProcessError"},
     stdout : {<<>>, <<"o", "u", "t", "\n">>},
     stderr : {<<<<>>>>, <<<<"e", "r", "r", "\n">>>>}]
    \cup
    [kind : {"TimeoutExpired"}, stdout : {<<>>},
     stderr : {None, <<<<"p", "a", "r", "t">>>>}]
    \cup
    [kind : {"FileNotFoundError"}, stdout : {<<>>}, stderr : {None}]

\* run_command: the stdout returned, or NOKException(e.stderr) for
\* CalledProcessError and TimeoutExpired and NOKException(e) for
\* FileNotFoundError; detail is str() of the NOKException
run_command(command, outcome) ==
    CASE outcome.kind = "exit0" -> Returned(outcome.stdout)
      [] outcome.kind = "CalledProcessError" ->
             Raised("NOKException", 0, outcome.stderr[1])
      [] outcome.kind = "TimeoutExpired" ->
             Raised("NOKException", 0,
                    IF outcome.stderr = None THEN <<"None">>
                    ELSE <<"b'">> \o outcome.stderr[1] \o <<"'">>)
      [] OTHER ->
             Raised("NOKException", 0,
                    <<"[Errno 2] No such file or directory: '">> \o command[1]
                    \o <<"'">>)

\* "if kube_token" / "assert kube_token" on None or the empty string
Falsy(kube_token) == kube_token = None \/ kube_token = <<"">>

\* utils.kubectl as a call: what it gives and the commands it spawned;
\* kube_token is None or <<string>>
kubectl_call(body, kube_token, kube_apiserver, tls_server_name, namespace, outcome) ==
    IF Falsy(kube_token)
    THEN [result |-> Raised("AssertionError", 0, <<>>), spawned |-> <<>>]
    ELSE LET command == kubectl_command(body, kube_token[1], kube_apiserver,
                                        tls_server_name, namespace)
         IN [result |-> run_command(command, outcome), spawned |-> <<command>>]

\* utils.helm as a call
helm_call(body, kube_token, kube_apiserver, tls_server_name, namespace, outcome) ==
    IF Falsy(kube_token)
    THEN [result |-> Raised("AssertionError", 0, <<>>), spawned |-> <<>>]
    ELSE LET command == helm_command(body, kube_token[1], kube_apiserver,
                                     tls_server_name, namespace)
         IN [result |-> run_command(command, outcome), spawned |-> <<command>>]

\* validate_kube_token: the probe; a NOKException becomes HTTPException(401)
validate_kube_token(kube_token, outcome) ==
    LET probe == kubectl_call(ProbeBody, <<kube_token>>, KUBE_API_SERVER,
                              KUBE_TLS_SERVER_NAME, NOTEBOOKS_NAMESPACE, outcome)
    IN [result |-> IF probe.result.raises = "NOKException"
                   THEN Raised("HTTPException", 401,
                               <<"The Kubernetes token in not valid: ">>
                               \o probe.result.detail)
                   ELSE IF probe.result.raises = "" THEN Returned(None)
                   ELSE probe.result,
        spawned |-> probe.spawned]

\* valid_kube_token: kube_token is the cookie, None or <<string>>
valid_kube_token(kube_token, outcome) ==
    IF ~Falsy(kube_token)
    THEN LET validated == validate_kube_token(kube_token[1], outcome)
         IN [result |-> IF validated.result.raises = ""
                        THEN Returned(kube_token[1])
                        ELSE validated.result,
             spawned |-> validated.spawned]
    ELSE [result |-> Raised("HTTPException", 403,
                            <<"Where is my kube_token Cookie? Please log in.">>),
          spawned |-> <<>>]

\* the characters the strings of the calls are made of: inside and outside
\* [a-z0-9], the two separators, and a line end
NameChars == {"a", "0", "-", ".", "A", "\n"}

\* strings about the size limits 20, 30 and 40 of the code
LongNames == {Rep("a", n) : n \in {15, 16, 20, 21, 30, 31, 40, 41}}

Strings == BoundedSeqs(NameChars, MaxLen) \cup LongNames

EmailChars == {"a", "@", "-", ".", "A", "\n"}

Emails ==
    BoundedSeqs(EmailChars, MaxLen)
    \cup {Rep("a", 20) \o <<"@", "x">>, Rep("a", 21) \o <<"@", "x">>}

\* what jwt.decode gives: no JWT at all, claims without "email", an "email"
\* that is a string, an "email" that is null
Contents ==
    {[decodes |-> FALSE, payload |-> [sub |-> ""]],
     [decodes |-> TRUE, payload |-> [sub |-> "s"]],
     [decodes |-> TRUE, payload |-> [email |-> [type |-> "null", text |-> <<>>]]]}
    \cup
    {[decodes |-> TRUE, payload |-> [email |-> [type |-> "string", text |-> e]]] :
        e \in Emails}

\* the kube_token argument or cookie: None, empty, or a token
TokenArguments == {None, <<"">>, <<"mytoken">>}

CommandArguments ==
    [body : {<<T("get"), T("pods")>>, ProbeBody},
     kube_token : TokenArguments,
     kube_apiserver : {None, <<T("https://foo.bar")>>},
     tls_server_name : {None, <<T("https://1.2.3.4")>>},
     namespace : {T("default"), T("nok-namespace")},
     outcome : Outcomes]

\* fn is about to be called with args
Calling(fn, args) == [fn |-> fn, args |-> args, result |-> <<>>, spawned |-> <<>>]

CallInputs ==
    {Calling("valid_name", a) : a \in [string : Strings, max_size : {2, 20, 30, 40}]}
    \cup {Calling("username_from_email", a) : a \in [content : Contents]}
    \cup {Calling("complete_notebook_name_from_form", a) :
             a \in [notebook_name : Strings, username : {<<"u">>, Rep("a", 20)}]}
    \cup {Calling("run_command", a) :
             a \in [command : {<<T("kubectl"), T("version")>>, <<T("noexist")>>},
                    outcome : Outcomes]}
    \cup {Calling("kubectl", a) : a \in CommandArguments}
    \cup {Calling("helm", a) : a \in CommandArguments}
    \cup {Calling("valid_kube_token", a) :
             a \in [kube_token : TokenArguments, outcome : Outcomes]}

CallsInit ==
    /\ releases = {}
    /\ NoRequest
    /\ creates = <<>>
    /\ call \in CallInputs

\* the call is made: it returns or raises
Gives(result, spawned) ==
    /\ call.result = <<>>
    /\ call' = [call EXCEPT !.result = <<result>>, !.spawned = spawned]
    /\ UNCHANGED <<requestVars, creates>>

ApplyValidName ==
    /\ call.fn = "valid_name"
    /\ Gives(IF valid_name(call.args.string, call.args.max_size)
             THEN Returned(call.args.string)
             ELSE Raised("NOKException", 0, <<>>),
             <<>>)

ApplyUsernameFromEmail ==
    /\ call.fn = "username_from_email"
    /\ Gives(username_from_content(call.args.content), <<>>)

ApplyCompleteNotebookName ==
    /\ call.fn = "complete_notebook_name_from_form"
    /\ LET n == complete_notebook_name_from_form(call.args.notebook_name,
                                                 call.args.username)
       IN Gives(IF n # None THEN Returned(n[1])
                ELSE Raised("HTTPException", 400,
                            <<"The Notebook complete_name is not valid">>),
                <<>>)

ApplyRunCommand ==
    /\ call.fn = "run_command"
    /\ Gives(run_command(call.args.command, call.args.outcome),
             <<call.args.command>>)

ApplyKubectl ==
    /\ call.fn = "kubectl"
    /\ LET a == call.args
           k == kubectl_call(a.body, a.kube_token, a.kube_apiserver,
                             a.tls_server_name, a.namespace, a.outcome)
       IN Gives(k.result, k.spawned)

ApplyHelm ==
    /\ call.fn = "helm"
    /\ LET a == call.args
           h == helm_call(a.body, a.kube_token, a.kube_apiserver,
                          a.tls_server_name, a.namespace, a.outcome)
       IN Gives(h.result, h.spawned)

ApplyValidKubeToken ==
    /\ call.fn = "valid_kube_token"
    /\ LET v == valid_kube_token(call.args.kube_token, call.args.outcome)
       IN Gives(v.result, v.spawned)

CallsNext ==
    \/ ApplyValidName
    \/ ApplyUsernameFromEmail
    \/ ApplyCompleteNotebookName
    \/ ApplyRunCommand
    \/ ApplyKubectl
    \/ ApplyHelm
    \/ ApplyValidKubeToken

Calls == CallsInit /\ [][CallsNext]_vars

-----------------------------------------------------------------------------
(* create_notebook served for several requests at the same time: the route   *)
(* is a plain def, which FastAPI runs in a thread of its pool, one thread per *)
(* request; every command a thread issues is one step, and the steps of the  *)
(* threads interleave.  The threads share nothing but the cluster.           *)

Workers == 1..MaxWorkers

\* the variables create_notebook does not touch when served in a thread
sharedNothing == <<req, pc, cmds, resp, username, notebook_name, listing, exists,
                   values_file, events, todo, notebooks, statefulset_items,
                   pod_items, raised, call>>

\* the requests of the threads: those of one user
ConcurrentRequests ==
    [op : {"create"}, kube_token : {"tokU"},
     name : FormNames, scale : {""},
     helm_values : {None} \cup {<<t>> : t \in YamlTexts \ {""}}]

\* a thread that has no request yet
NoCreate ==
    [req |-> [op |-> "create", kube_token |-> "", name |-> None, scale |-> "",
              helm_values |-> None],
     pc |-> "idle", cmds |-> <<>>, resp |-> NoResponse, username |-> None,
     notebook_name |-> None, exists |-> None, values_file |-> "None"]

RaceInit ==
    /\ releases = {}
    /\ NoRequest
    /\ call = NoCall
    /\ creates = [w \in Workers |-> NoCreate]

\* thread w goes on to the state c
Becomes(w, c) ==
    /\ creates' = [creates EXCEPT ![w] = c]
    /\ UNCHANGED sharedNothing

\* thread w ends its request
Ends(c, status, kind) == [c EXCEPT !.pc = "done", !.resp = Response(status, kind)]

ConcurrentReceive(w) ==
    /\ creates[w].pc = "idle"
    /\ \E r \in ConcurrentRequests :
          Becomes(w, [creates[w] EXCEPT !.req = r, !.pc = "valid_kube_token"])
    /\ UNCHANGED releases

\* valid_kube_token
ConcurrentValidKubeToken(w) ==
    LET c == creates[w] IN
    /\ c.pc = "valid_kube_token"
    /\ \/ /\ c.req.kube_token = ""
          /\ Becomes(w, Ends(c, 403, "Forbidden"))
       \/ /\ c.req.kube_token # ""
          /\ LET probed == [c EXCEPT !.cmds =
                               Append(c.cmds, kubectl(ProbeBody, c.req.kube_token))]
             IN \/ Becomes(w, [probed EXCEPT !.pc = "complete_notebook_name_from_form"])
                \/ Becomes(w, Ends(probed, 401, "Unauthorized"))
    /\ UNCHANGED releases

\* username_from_email and complete_notebook_name_from_form
ConcurrentCompleteNotebookName(w) ==
    LET c == creates[w]
        u == username_from_email(c.req.kube_token)
    IN
    /\ c.pc = "complete_notebook_name_from_form"
    /\ IF u = None
       THEN Becomes(w, Ends(c, 400, "BadIdentity"))
       ELSE LET n == complete_notebook_name_from_form(c.req.name, u[1]) IN
            IF n = None
            THEN Becomes(w, Ends([c EXCEPT !.username = u], 400, "InvalidName"))
            ELSE Becomes(w, [c EXCEPT !.username = u, !.notebook_name = n,
                                      !.pc = "notebook_exists"])
    /\ UNCHANGED releases

\* ConcurrentCreateExists holding a lock on the name until the request ends
ConcurrentCreateExistsLocked(w) ==
    LET c == creates[w]
        listed == HelmList(ExactFilter(c.notebook_name[1]))
        asked == [c EXCEPT !.cmds = Append(c.cmds,
                      helm(ExistsBody(c.notebook_name[1]), c.req.kube_token))]
    IN
    /\ c.pc = "notebook_exists"
    /\ \A v \in Workers \ {w} :
          creates[v].pc \in {"form_data_to_values_file", "deploy_notebook"}
             => creates[v].notebook_name # c.notebook_name
    /\ IF notebook_exists(listed)
       THEN Becomes(w, Ends([asked EXCEPT !.exists = <<TRUE>>], 400, "Conflict"))
       ELSE Becomes(w, [asked EXCEPT !.exists = <<FALSE>>,
                                     !.pc = "form_data_to_values_file"])
    /\ UNCHANGED releases

\* create_notebook, first statement: notebook_exists against the cluster as
\* it is at that moment
ConcurrentCreateExists(w) ==
    LET c == creates[w]
        listed == HelmList(ExactFilter(c.notebook_name[1]))
        asked == [c EXCEPT !.cmds = Append(c.cmds,
                      helm(ExistsBody(c.notebook_name[1]), c.req.kube_token))]
    IN
    /\ c.pc = "notebook_exists"
    /\ \/ Becomes(w, Ends(asked, 500, "InternalError"))
       \/ /\ notebook_exists(listed)
          /\ Becomes(w, Ends([asked EXCEPT !.exists = <<TRUE>>], 400, "Conflict"))
       \/ /\ ~notebook_exists(listed)
          /\ Becomes(w, [asked EXCEPT !.exists = <<FALSE>>,
                                      !.pc = "form_data_to_values_file"])
    /\ UNCHANGED releases

\* NotebookConfig.form_data_to_values_file
ConcurrentFormDataToValuesFile(w) ==
    LET c == creates[w] IN
    /\ c.pc = "form_data_to_values_file"
    /\ IF c.req.helm_values = None
       THEN Becomes(w, [c EXCEPT !.pc = "deploy_notebook"])
       ELSE IF YamlLoadRaises(c.req.helm_values[1])
       THEN Becomes(w, Ends([c EXCEPT !.values_file = "open"], 400, "BadRequest"))
       ELSE Becomes(w, [c EXCEPT !.values_file = "open", !.pc = "deploy_notebook"])
    /\ UNCHANGED releases

\* deploy_notebook: helm install; helm refuses a name that is in use
ConcurrentDeployNotebook(w) ==
    LET c == creates[w]
        installed == [c EXCEPT !.cmds = Append(c.cmds,
                          helm(InstallBody(c.notebook_name[1], c.values_file),
                               c.req.kube_token)),
                               !.values_file = Close(c.values_file)]
    IN
    /\ c.pc = "deploy_notebook"
    /\ \/ /\ \A r \in releases : r.name # c.notebook_name[1]
          /\ releases' = releases \cup
                           {[name |-> c.notebook_name[1], chart |-> JupyterChart]}
          /\ Becomes(w, Ends(installed, 303, "Redirect"))
       \/ /\ Becomes(w, Ends(installed, 500, "InternalError"))
          /\ UNCHANGED releases

RaceNext ==
    \E w \in Workers :
        \/ ConcurrentReceive(w)
        \/ ConcurrentValidKubeToken(w)
        \/ ConcurrentCompleteNotebookName(w)
        \/ ConcurrentCreateExists(w)
        \/ ConcurrentFormDataToValuesFile(w)
        \/ ConcurrentDeployNotebook(w)

Race == RaceInit /\ [][RaceNext]_vars

-----------------------------------------------------------------------------
(* The commands of a request, by kind *)

IsProbe(c) == c[1] = T("kubectl") /\ c[2] = T("auth")

IsListing(c) == c[1] = T("helm") /\ c[2] = T("list")

IsInstall(c) == c[1] = T("helm") /\ c[2] = T("install")

IsUninstall(c) == c[1] = T("helm") /\ c[2] = T("delete")

IsScale(c) == c[1] = T("kubectl") /\ c[2] = T("scale")

IsEventQuery(c) == c[1] = T("kubectl") /\ c[2] = T("get") /\ c[3] = T("event")

Issued(Is(_)) == {i \in 1..Len(cmds) : Is(cmds[i])}

Served == pc \in {"done", "idle"} /\ resp.status # 0

-----------------------------------------------------------------------------
(* C1 *)

\* C1, as claimed: a Scale request whose replicas value is neither 0 nor 1
\* fails with BadRequest and has issued no orchestration command at all.
C1_NoCommandAtAll ==
    (req.op = "scale" /\ req.scale \notin {"0", "1"}) =>
        /\ cmds = <<>>
        /\ Served => resp.kind = "BadRequest"

\* C1, amended: such a request fails and never issues a scale command; the
\* authorization probe and then the existence listing are issued first, and
\* the value is rejected (422) only once both succeeded and the notebook exists.
C1_NoScaleCommand ==
    (req.op = "scale" /\ req.scale \notin {"0", "1"}) =>
        /\ Issued(IsScale) = {}
        /\ Served => resp.status \in {400, 401, 403, 422, 500}
        /\ resp.status = 422 =>
              /\ cmds = <<kubectl(ProbeBody, req.kube_token),
                          helm(ExistsBody(req.name), req.kube_token)>>
              /\ exists = <<TRUE>>
        /\ (Served /\ resp.status # 422) => resp.kind \in
              {"Forbidden", "Unauthorized", "InternalError", "NotFound"}

C1_Witness ==
    /\ req.op = "scale"
    /\ req.scale = "2"
    /\ pc = "done"
    /\ resp.status = 422
    /\ Len(cmds) = 2

-----------------------------------------------------------------------------
(* C2 *)

\* C2: once a Create that supplied a configuration override has returned or
\* failed, its temporary configuration file no longer exists.
C2_FileReleased ==
    (req.op = "create" /\ req.helm_values # None /\ pc = "done") =>
        values_file # "open"

-----------------------------------------------------------------------------
(* C3 *)

\* C3: Create issues the install command at most once, and only after the
\* composed name passed validation, exists returned false and a supplied
\* override parsed; Conflict, InvalidName and BadRequest issue no install.
C3_InstallGuarded ==
    /\ Cardinality(Issued(IsInstall)) <= 1
    /\ \A i \in Issued(IsInstall) :
          /\ req.op = "create"
          /\ username # None
          /\ notebook_name = <<complete_name(username[1], req.name)>>
          /\ valid_name(cmds[i][3], 40)
          /\ cmds[i][3] = notebook_name[1]
          /\ \E j \in 1..(i - 1) :
                cmds[j] = helm(ExistsBody(notebook_name[1]), req.kube_token)
          /\ exists = <<FALSE>>
          /\ Len(listing) # 1
          /\ req.helm_values # None => ~YamlLoadRaises(req.helm_values[1])
    /\ (req.op = "create" /\ Served) =>
          /\ exists = <<TRUE>> => resp.kind = "Conflict"
          /\ (username # None /\ ~valid_name(complete_name(username[1], req.name), 40))
                => resp.kind = "InvalidName"
          /\ (exists = <<FALSE>> /\ req.helm_values # None
              /\ YamlLoadRaises(req.helm_values[1])) => resp.kind = "BadRequest"
          /\ resp.kind \in {"Conflict", "InvalidName", "BadRequest"}
                => Issued(IsInstall) = {}

C3_Witness ==
    /\ req.op = "create"
    /\ pc = "done"
    /\ resp.status = 303
    /\ req.helm_values # None
    /\ Cardinality(Issued(IsInstall)) = 1

-----------------------------------------------------------------------------
(* C4 *)

-----------------------------------------------------------------------------
(* C5 *)

\* C5: exists is true iff the exact-name listing returned exactly one entry,
\* false for none and for two or more; a failed listing command ends the
\* request with InternalError and no boolean.
C5_ExistsIffOne ==
    /\ exists # None =>
          /\ Issued(IsListing) # {}
          /\ exists[1] = TRUE <=> Len(listing) = 1
          /\ Len(listing) = 0 => exists[1] = FALSE
          /\ Len(listing) >= 2 => exists[1] = FALSE
    /\ (Served /\ req.op \in {"create", "delete", "scale", "events"}
        /\ Issued(IsListing) # {} /\ exists = None) =>
          /\ resp.status = 500
          /\ resp.kind = "InternalError"
          /\ IsListing(cmds[Len(cmds)])

C5_Witness ==
    /\ exists = <<FALSE>>
    /\ Len(listing) = 2
    /\ pc = "done"

-----------------------------------------------------------------------------
(* C6 - C9: List and reconciliation *)

\* a field of a JSON object, "" when the object has no such field
Field(object, key) == IF key \in DOMAIN object THEN object[key] ELSE ""

\* the in-family releases template_context has dealt with so far
Visited ==
    SelectSeq(SubSeq(listing, 1, Len(listing) - Len(todo)),
              LAMBDA r : SubSeq(r.chart, 1, 2) = <<"jupyter-notebook", "-">>)

\* the last Notebook of the list is the one fetch_notebook_info built from the
\* two views in statefulset_items and pod_items
LastReconciled ==
    /\ req.op = "list"
    /\ pc \in {"template_context", "done", "idle"}
    /\ raised = ""
    /\ notebooks # <<>>

Last == notebooks[Len(notebooks)]

C6_State ==
    (req.op = "list" /\ listing # <<>>) =>
        /\ raised = "NOKException" =>
              /\ pc \in {"template_context", "done", "idle"}
              /\ resp.status \in {0, 200}
              /\ Last = [name |-> Visited[Len(Visited)].name, image |-> "Error",
                         status |-> "Error", start_time |-> "Error"]
        /\ raised = "KeyError" => (pc \in {"done", "idle"} /\ resp.status = 500)
        /\ (pc = "template_context" \/ (Served /\ resp.status = 200)) =>
              /\ Len(notebooks) = Len(Visited)
              /\ \A i \in 1..Len(notebooks) : notebooks[i].name = Visited[i].name
        /\ (Served /\ resp.status = 200) => todo = <<>>

C6_Step ==
    (req.op = "list" /\ notebooks' # notebooks /\ pc # "idle") =>
        /\ Len(notebooks') = Len(notebooks) + 1
        /\ SubSeq(notebooks', 1, Len(notebooks)) = notebooks

C8_InstanceOverrides ==
    LastReconciled =>
        /\ (Len(statefulset_items) >= 1 /\ Len(pod_items) = 0) =>
              /\ Last.image = Field(statefulset_items[1], "image")
              /\ Last.status = "Not Running"
              /\ Last.start_time = "Not Running"
        /\ Len(pod_items) >= 1 =>
              /\ Last.status = Field(pod_items[1], "phase")
              /\ Last.image = Field(pod_items[1], "image")
              /\ "startTime" \in DOMAIN pod_items[1] =>
                    Last.start_time = Field(pod_items[1], "startTime")

C8_Witness ==
    /\ LastReconciled
    /\ Len(statefulset_items) = 2
    /\ Len(pod_items) = 2
    /\ pod_items[1] # pod_items[2]
    /\ statefulset_items[1] # statefulset_items[2]
    /\ Last.status = "Running"
    /\ Last.start_time = "t1"

\* C9, as claimed: an Instance view without a start timestamp gives
\* start_time "Not Running", with and without a Controller view.
C9_NotRunningEitherWay ==
    (LastReconciled /\ Len(pod_items) >= 1
     /\ "startTime" \notin DOMAIN pod_items[1]) =>
        Last.start_time = "Not Running"

\* C9, amended: an Instance view without a start timestamp gives start_time
\* "Not Running" when a Controller view exists and "StatefulSet Missing" when
\* none exists.
C9_KeepsControllerStep ==
    (LastReconciled /\ Len(pod_items) >= 1
     /\ "startTime" \notin DOMAIN pod_items[1]) =>
        /\ Len(statefulset_items) >= 1 => Last.start_time = "Not Running"
        /\ Len(statefulset_items) = 0 => Last.start_time = "StatefulSet Missing"

C9_Witness ==
    /\ LastReconciled
    /\ Len(pod_items) >= 1
    /\ "startTime" \notin DOMAIN pod_items[1]
    /\ Len(statefulset_items) = 0
    /\ Last.status = "Pending"

-----------------------------------------------------------------------------
(* C10: get_notebook_events *)

EventQueries == SelectSeq(cmds, IsEventQuery)

\* the report for notebook name n and the three outputs o1, o2, o3
Report(n, o1, o2, o3) ==
    <<"* Events involving ">> \o n \o <<":", "\n">> \o <<"\n">> \o o1
    \o <<"\n">>
    \o <<"* Events involving ">> \o n \o <<"-", "0">> \o <<":", "\n">> \o <<"\n">> \o o2
    \o <<"\n">>
    \o <<"* Events involving ">> \o <<"d", "a", "t", "a", "-">> \o n \o <<"-", "0">>
    \o <<":", "\n">> \o <<"\n">> \o o3

\* the name the k-th event query is about, for notebook name n
Involved(n, k) ==
    CASE k = 1 -> n
      [] k = 2 -> n \o <<"-", "0">>
      [] OTHER -> <<"d", "a", "t", "a", "-">> \o n \o <<"-", "0">>

\* C10: fetch-events issues its event queries one after the other, for N,
\* N-0 and data-N-0 in that order, three when it succeeds; the text returned
\* holds the three headers in that order, each followed by its query's raw
\* output, empty or not; when the k-th query fails the operation fails with
\* InternalError, returns no text and has issued no query after the k-th.
C10_ThreeQueriesInOrder ==
    req.op = "events" =>
        /\ Len(EventQueries) <= 3
        /\ \A k \in 1..Len(EventQueries) :
              /\ EventQueries[k] =
                    kubectl(<<T("get"), T("event"), T("--field-selector"),
                              <<"involvedObject.name=">> \o Involved(req.name, k)>>,
                            req.kube_token)
              /\ cmds[2 + k] = EventQueries[k]
        /\ Len(cmds) <= 2 + Len(EventQueries)
        /\ (Served /\ resp.status = 200) =>
              /\ Len(EventQueries) = 3
              /\ Len(events) = 6
              /\ resp.body = Report(req.name, events[2], events[4], events[6])
        /\ (Served /\ EventQueries # <<>> /\ resp.status # 200) =>
              /\ resp.status = 500
              /\ resp.kind = "InternalError"
              /\ resp.body = <<>>
              /\ Len(events) = 2 * Len(EventQueries) - 1
        /\ Len(events) \in {2 * Len(EventQueries), 2 * Len(EventQueries) - 1}

C10_Witness ==
    /\ req.op = "events"
    /\ pc = "done"
    /\ resp.status = 200
    /\ events[2] = <<"e">>
    /\ events[4] = <<>>
    /\ Len(EventQueries) = 3

-----------------------------------------------------------------------------
(* C11: the credential gate *)

\* the call has been made
Called(fn) == call.fn = fn /\ call.result # <<>>

\* the exception subprocess raised for the outcome, as text
FailureMessage(outcome, command) ==
    CASE outcome.kind = "CalledProcessError" ->
             <<"Command returned non-zero exit status">>
      [] outcome.kind = "TimeoutExpired" ->
             <<"Command timed out after 600 seconds">>
      [] OTHER ->
             <<"[Errno 2] No such file or directory: '">> \o command[1] \o <<"'">>

\* the diagnostic texts a failed command left: what it wrote to its standard
\* error, if that was captured, and the message of the failure itself
Diagnostics(outcome, command) ==
    (IF outcome.stderr # None THEN {outcome.stderr[1]} ELSE {})
    \cup {FailureMessage(outcome, command)}

\* text holds part, as it is
Carries(text, part) ==
    \E i \in 1..(Len(text) + 1) :
        /\ i + Len(part) - 1 <= Len(text)
        /\ SubSeq(text, i, i + Len(part) - 1) = part

\* C11: an absent or empty credential fails with Forbidden and issues no
\* command; a non-empty one causes exactly one probe (auth can-i list secret,
\* then the namespace and credential flags) and is returned unchanged iff the
\* probe succeeds; a probe that exits non-zero, times out or has no executable
\* yields Unauthorized carrying the diagnostic text of that failure.
C11_GateCarriesDiagnostic ==
    Called("valid_kube_token") =>
        LET kube_token == call.args.kube_token
            outcome == call.args.outcome
            result == call.result[1]
        IN /\ (kube_token = None \/ kube_token = <<"">>) =>
                 /\ result.raises = "HTTPException"
                 /\ result.status = 403
                 /\ call.spawned = <<>>
           /\ ~(kube_token = None \/ kube_token = <<"">>) =>
                 /\ call.spawned =
                       <<<<T("kubectl"), T("auth"), T("can-i"), T("list"), T("secret"),
                           T("--namespace"), T("default"),
                           T("--token"), T(kube_token[1])>>>>
                 /\ (result.raises = "" /\ result.value = kube_token[1])
                       <=> outcome.kind = "exit0"
                 /\ outcome.kind # "exit0" =>
                       /\ result.raises = "HTTPException"
                       /\ result.status = 401
                       /\ \E d \in Diagnostics(outcome, call.spawned[1]) :
                             Carries(result.detail, d)

-----------------------------------------------------------------------------
(* C12: username_from_email *)

\* the naming grammar: not empty, only characters of [a-z0-9-.], and every
\* dot-separated segment starts and ends with a character of [a-z0-9]
Grammar(s) ==
    /\ Len(s) >= 1
    /\ \A i \in 1..Len(s) :
          /\ s[i] \in Letters \cup Digits \cup {"-", "."}
          /\ (i = 1 \/ s[i - 1] = ".") => s[i] \in Letters \cup Digits
          /\ (i = Len(s) \/ s[i + 1] = ".") => s[i] \in Letters \cup Digits

\* the text before the first "@" (all of it when it holds none)
BeforeAt(text) ==
    LET ats == {i \in 1..Len(text) : text[i] = "@"}
    IN IF ats = {} THEN text
       ELSE SubSeq(text, 1, (CHOOSE i \in ats : \A j \in ats : i <= j) - 1)

\* C12: every value resolve returns is the email claim's text before the first
\* "@", satisfies the naming grammar and is at most 20 long; a credential that
\* does not decode, has no email claim, or whose local part violates the
\* grammar or the length bound fails with BadIdentity, never with another
\* error and never with a value.
C12_IdentityInGrammar ==
    Called("username_from_email") =>
        LET content == call.args.content
            result == call.result[1]
            claimed == content.decodes /\ "email" \in DOMAIN content.payload
        IN /\ result.raises = "" =>
                 /\ claimed
                 /\ result.value = BeforeAt(content.payload.email.text)
                 /\ Grammar(result.value)
                 /\ Len(result.value) <= 20
           /\ result.raises # "" =>
                 /\ result.raises = "HTTPException"
                 /\ result.status = 400
           /\ (~claimed
               \/ ~Grammar(BeforeAt(content.payload.email.text))
               \/ Len(BeforeAt(content.payload.email.text)) > 20) =>
                 result.raises = "HTTPException"

-----------------------------------------------------------------------------
(* C13: complete_notebook_name_from_form *)

\* C13: compose returns exactly "nok-<identity>-<name>" whenever it returns,
\* and returns only if that whole string satisfies the naming grammar and is
\* at most 40 long; a composed string that is longer or violates the grammar
\* fails with InvalidName.
C13_ComposedNameInGrammar ==
    Called("complete_notebook_name_from_form") =>
        LET composed == <<"n", "o", "k", "-">> \o call.args.username \o <<"-">>
                        \o call.args.notebook_name
            result == call.result[1]
        IN /\ result.raises = "" =>
                 /\ result.value = composed
                 /\ Grammar(composed)
                 /\ Len(composed) <= 40
           /\ (Len(composed) > 40 \/ ~Grammar(composed)) =>
                 /\ result.raises = "HTTPException"
                 /\ result.status = 400

-----------------------------------------------------------------------------
(* C14: valid_name *)

\* C14: validate accepts a string iff it is not empty, no longer than
\* max_length, made of characters of [a-z0-9-.] only and of dot-separated
\* segments that each start and end with an alphanumeric character (so a
\* string ending in a line end is rejected); on acceptance it returns the input
\* unchanged, and validating the returned value again accepts it.
C14_AcceptsExactlyGrammar ==
    Called("valid_name") =>
        LET string == call.args.string
            max_size == call.args.max_size
            result == call.result[1]
        IN /\ result.raises = "" <=> (Grammar(string) /\ Len(string) <= max_size)
           /\ result.raises # "" => result.raises = "NOKException"
           /\ result.raises = "" =>
                 /\ result.value = string
                 /\ valid_name(result.value, max_size)

-----------------------------------------------------------------------------
(* C15: run_command *)

\* C15: run returns the captured standard output unchanged when the command
\* exits with zero; when it exits non-zero, times out or has no executable, run
\* fails with an OrchestrationError carrying the diagnostic text of that
\* failure; no other error escapes and no failure becomes a returned value.
C15_RunKeepsDiagnostic ==
    Called("run_command") =>
        LET outcome == call.args.outcome
            result == call.result[1]
        IN /\ outcome.kind = "exit0" =>
                 /\ result.raises = ""
                 /\ result.value = outcome.stdout
           /\ outcome.kind # "exit0" =>
                 /\ result.raises = "NOKException"
                 /\ \E d \in Diagnostics(outcome, call.args.command) :
                       Carries(result.detail, d)

-----------------------------------------------------------------------------
(* C16: the commands of kubectl and helm *)

\* the flags one client writes: [binary, server, ca, tls, token]
Flags(fn) ==
    IF fn = "kubectl"
    THEN [binary |-> "kubectl", server |-> "--server",
          ca |-> "--certificate-authority", tls |-> "--tls-server-name",
          token |-> "--token"]
    ELSE [binary |-> "helm", server |-> "--kube-apiserver",
          ca |-> "--kube-ca-file", tls |-> "--kube-tls-server-name",
          token |-> "--kube-token"]

\* C16: a command issued through kubectl or helm is the binary name, the
\* caller's arguments in their order, the server and CA flags when a server is
\* configured, the TLS server name flag when one is configured, and at the end
\* the namespace flag and value and then the credential flag and the
\* credential; with an absent or empty credential no command is issued.
C16_CommandShape ==
    (Called("kubectl") \/ Called("helm")) =>
        LET a == call.args
            f == Flags(call.fn)
            server == IF a.kube_apiserver = None THEN <<>>
                      ELSE <<<<f.server>>, a.kube_apiserver[1], <<f.ca>>,
                             <<"/var/run/secrets/kubernetes.io/serviceaccount/ca.crt">>>>
            tls == IF a.tls_server_name = None THEN <<>>
                   ELSE <<<<f.tls>>, a.tls_server_name[1]>>
        IN /\ (a.kube_token = None \/ a.kube_token = <<"">>) =>
                 /\ call.spawned = <<>>
                 /\ call.result[1].raises = "AssertionError"
           /\ ~(a.kube_token = None \/ a.kube_token = <<"">>) =>
                 /\ Len(call.spawned) = 1
                 /\ LET command == call.spawned[1]
                        n == Len(command)
                    IN /\ n = 1 + Len(a.body) + Len(server) + Len(tls) + 4
                       /\ command[1] = <<f.binary>>
                       /\ SubSeq(command, 2, 1 + Len(a.body)) = a.body
                       /\ SubSeq(command, 2 + Len(a.body), n - 4) = server \o tls
                       /\ command[n - 3] = <<"--namespace">>
                       /\ command[n - 2] = a.namespace
                       /\ command[n - 1] = <<f.token>>
                       /\ command[n] = <<a.kube_token[1]>>

C16_Witness ==
    /\ Called("helm")
    /\ call.args.kube_apiserver # None
    /\ call.args.tls_server_name # None
    /\ Len(call.spawned) = 1
    /\ Len(call.spawned[1]) = 13

-----------------------------------------------------------------------------
(* C17: List and the releases of other charts *)

IsGet(c) ==
    /\ c[1] = T("kubectl")
    /\ c[2] = T("get")
    /\ c[3] \in {T("statefulset"), T("pod")}

\* the releases of the listing whose chart starts with "jupyter-notebook-"
InFamily ==
    SelectSeq(listing, LAMBDA r : /\ Len(r.chart) >= 2
                                  /\ r.chart[1] = "jupyter-notebook"
                                  /\ r.chart[2] = "-")

\* C17: List issues exactly one release listing, with the pattern
\* ^nok-<identity>-.+$, and returns exactly one Notebook for each release
\* returned whose chart starts with "jupyter-notebook-", in the order of the
\* listing, and none for another release; a release of another chart causes no
\* error and no controller or instance query.
C17_OnlyNotebookReleases ==
    req.op = "list" =>
        /\ Cardinality(Issued(IsListing)) <= 1
        /\ \A i \in Issued(IsListing) :
              /\ username # None
              /\ cmds[i] = <<T("helm"), T("list"), T("--filter"),
                             <<"^", "n", "o", "k", "-">> \o username[1]
                                \o <<"-", ".", "+", "$">>,
                             T("--all"), T("--output"), T("json"),
                             T("--namespace"), T("default"),
                             T("--kube-token"), T(req.kube_token)>>
        /\ \A i \in Issued(IsGet) :
              \E k \in 1..Len(InFamily) :
                  cmds[i][5] = <<"app.kubernetes.io/instance=">> \o InFamily[k].name
        /\ (Served /\ resp.status = 200) =>
              /\ Cardinality(Issued(IsListing)) = 1
              /\ Len(notebooks) = Len(InFamily)
              /\ \A k \in 1..Len(notebooks) : notebooks[k].name = InFamily[k].name
        /\ (Served /\ listing # <<>> /\ InFamily = <<>>) =>
              /\ resp.status = 200
              /\ notebooks = <<>>
              /\ Issued(IsGet) = {}

C17_Witness ==
    /\ req.op = "list"
    /\ Served
    /\ resp.status = 200
    /\ Len(listing) = 3
    /\ Len(notebooks) = 2
    /\ Cardinality(Issued(IsGet)) = 4

-----------------------------------------------------------------------------
(* C18: no command without a successful probe *)

C18_State ==
    /\ Cardinality(Issued(IsProbe)) <= 1
    /\ \A i \in 1..Len(cmds) :
          ~IsProbe(cmds[i]) =>
              /\ i > 1
              /\ cmds[1] = <<T("kubectl"), T("auth"), T("can-i"), T("list"),
                             T("secret"), T("--namespace"), T("default"),
                             T("--token"), T(req.kube_token)>>
              /\ cmds[i][Len(cmds[i]) - 1] \in {T("--token"), T("--kube-token")}
              /\ cmds[i][Len(cmds[i])] = T(req.kube_token)
    /\ resp.kind \in {"Forbidden", "Unauthorized"} =>
          \A i \in 1..Len(cmds) : IsProbe(cmds[i])

C18_Step ==
    (Len(cmds') = Len(cmds) + 1 /\ ~IsProbe(cmds'[Len(cmds')])) =>
        /\ cmds # <<>>
        /\ IsProbe(cmds[1])
        /\ pc # "valid_kube_token"
        /\ resp.status = 0

\* C18: in every request a listing, install, uninstall, scale, get or event
\* command is issued only with the credential whose capability probe was
\* issued first in that request and succeeded (the request had not failed
\* when the command was issued); after a failed probe or without a credential
\* no such command is issued, whatever the credential decodes to.
C18_ProbeBeforeCommands == []C18_State /\ [][C18_Step]_vars

C18_Witness ==
    /\ req.op = "create"
    /\ req.kube_token = "tokU"
    /\ Served
    /\ resp.status = 303
    /\ IsProbe(cmds[1])
    /\ Issued(IsInstall) = {3}

-----------------------------------------------------------------------------
(* C19: two create_notebook calls at the same time *)

\* the install commands thread w has issued
Installs(w) == {i \in 1..Len(creates[w].cmds) : IsInstall(creates[w].cmds[i])}

\* C19: the existence check of Create and its install are not atomic: a
\* thread's check and its install are never held back by another thread that
\* stands between its own check and install, whatever name that one works on,
\* and a thread whose check returned false issues its install; so two calls
\* for the same composed name on a cluster without that release can both see
\* exists = false and both issue the install command.
C19_NoMutualExclusion ==
    \A w \in DOMAIN creates :
        LET c == creates[w] IN
        /\ c.pc = "notebook_exists" => ENABLED ConcurrentCreateExists(w)
        /\ c.pc = "deploy_notebook" =>
              /\ c.exists = <<FALSE>>
              /\ ENABLED ConcurrentDeployNotebook(w)
        /\ Installs(w) # {} => c.exists = <<FALSE>>
        /\ (c.pc = "done" /\ c.exists = <<FALSE>> /\ c.resp.kind # "BadRequest") =>
              Cardinality(Installs(w)) = 1

C19_Witness ==
    /\ DOMAIN creates = Workers
    /\ \E v, w \in Workers :
          /\ v # w
          /\ creates[v].notebook_name # None
          /\ creates[v].notebook_name = creates[w].notebook_name
          /\ creates[v].exists = <<FALSE>>
          /\ creates[w].exists = <<FALSE>>
          /\ Installs(v) # {}
          /\ Installs(w) # {}
          /\ creates[v].resp.status = 303
          /\ creates[w].resp.status = 500

-----------------------------------------------------------------------------
(* C20: whose notebooks Delete, Scale and Events act on *)

\* text starts with prefix
StartsWith(text, prefix) ==
    /\ Len(text) >= Len(prefix)
    /\ SubSeq(text, 1, Len(prefix)) = prefix

\* the resource name an uninstall, scale or event command is about
Target(c) ==
    IF IsUninstall(c) THEN c[3]
    ELSE IF IsScale(c) THEN Tail(c[5])
    ELSE req.name

\* C20: Delete, Scale and Events issue their uninstall, scale or event
\* commands only for a name that begins with "nok-<identity>-", identity being
\* the one resolved from the caller's credential; never for a name with
\* another identity's prefix or with none.
C20_OwnPrefixOnly ==
    \A i \in Issued(IsUninstall) \cup Issued(IsScale) \cup Issued(IsEventQuery) :
        LET identity == username_from_email(req.kube_token) IN
        /\ identity # None
        /\ StartsWith(Target(cmds[i]),
                      <<"n", "o", "k", "-">> \o identity[1] \o <<"-">>)

====
